---- MODULE Spec2Model ----
(***************************************************************************)
(* Model of mcp-registro-ingreso: the attendance computation engine        *)
(* (utils/calculos.py, utils/fechas.py, tools/reportes.py, tools/nomina.py)*)
(* and the JSON-RPC dispatch shells (server.py, http_server_other_app.py). *)
(*                                                                         *)
(* Units.  Hours are integers in hundredths of an hour (every hour figure  *)
(* the code returns went through round(x, 2)).  Times of day are seconds   *)
(* since midnight.  Dates are records [anio, mes, dia].  Money is in       *)
(* hundredths of a currency unit, rates in ten-thousandths.                *)
(***************************************************************************)
EXTENDS Integers, Sequences, FiniteSets, TLC

VARIABLES
    registros_tbl,   \* table registros: <<empleado, fecha>> -> rows in insertion order
    empleados_tbl,   \* table empleados: empleado -> [liquida_dominical, activo]
    config_tbl,      \* table configuracion: clave -> valor, for the keys present
    args,            \* arguments of the operation being applied
    resultado,       \* value returned by the last operation
    op,              \* name of the last operation applied
    body,            \* JSON-RPC request body being POSTed to /mcp
    respuesta,       \* JSON-RPC response to body
    atendidas,       \* number of /mcp requests answered so far
    servidor,        \* dispatch shell serving /mcp: "asistencia" or "odoo"
    db,              \* the Database instance of server.py: engine, session_factory
    proceso          \* the server process: PORT, run mode, phase, handlers in flight

vars == <<registros_tbl, empleados_tbl, config_tbl, args, resultado, op,
          body, respuesta, atendidas, servidor, db, proceso>>

(***************************************************************************)
(* Bounds of the model                                                     *)
(***************************************************************************)
MaxRegistros == 4
MaxTurnos == 3
MaxSolicitudes == 2

(***************************************************************************)
(* Constants of calculos.py                                                *)
(***************************************************************************)
JORNADA_ORDINARIA == 800
LIMITE_SEMANAL == 4800
NOCTURNO_INICIO == 1260
NOCTURNO_FIN == 360
MINUTOS_DIA == 1440
SEGUNDOS_DIA == 86400

Nada == [vacio |-> TRUE]

Hora(h, m, s) == h * 3600 + m * 60 + s

(***************************************************************************)
(* round(x, 2) of Python applied to the quotient a / b, in hundredths when *)
(* a is already scaled: nearest integer, exact halves go to the even one.  *)
(***************************************************************************)
Redondear(a, b) ==
    LET q == a \div b
        r == a % b
    IN  IF 2 * r > b THEN q + 1
        ELSE IF 2 * r < b THEN q
        ELSE IF q % 2 = 0 THEN q ELSE q + 1

Min2(a, b) == IF a <= b THEN a ELSE b
Max2(a, b) == IF a >= b THEN a ELSE b
MinSet(S) == CHOOSE x \in S : \A y \in S : x <= y
Abs(x) == IF x < 0 THEN -x ELSE x

RECURSIVE SumSeq(_)
SumSeq(s) == IF s = <<>> THEN 0 ELSE Head(s) + SumSeq(Tail(s))

(***************************************************************************)
(* Calendar: date arithmetic of datetime.date as the code uses it          *)
(***************************************************************************)
Fecha(a, m, d) == [anio |-> a, mes |-> m, dia |-> d]

EsBisiesto(a) == a % 4 = 0 /\ (a % 100 # 0 \/ a % 400 = 0)

DiasDelMes(a, m) ==
    IF m = 2 THEN (IF EsBisiesto(a) THEN 29 ELSE 28)
    ELSE IF m \in {4, 6, 9, 11} THEN 30 ELSE 31

FechaValida(f) ==
    /\ f.mes \in 1..12
    /\ f.dia \in 1..DiasDelMes(f.anio, f.mes)

RECURSIVE DiasAntesDelMes(_, _)
DiasAntesDelMes(a, m) ==
    IF m = 1 THEN 0 ELSE DiasAntesDelMes(a, m - 1) + DiasDelMes(a, m - 1)

Ordinal(f) ==
    LET y == f.anio - 1
    IN  y * 365 + (y \div 4) - (y \div 100) + (y \div 400)
        + DiasAntesDelMes(f.anio, f.mes) + f.dia

DiaAnterior(f) ==
    IF f.dia > 1 THEN Fecha(f.anio, f.mes, f.dia - 1)
    ELSE IF f.mes > 1 THEN Fecha(f.anio, f.mes - 1, DiasDelMes(f.anio, f.mes - 1))
    ELSE Fecha(f.anio - 1, 12, 31)

DiaSiguiente(f) ==
    IF f.dia < DiasDelMes(f.anio, f.mes) THEN Fecha(f.anio, f.mes, f.dia + 1)
    ELSE IF f.mes < 12 THEN Fecha(f.anio, f.mes + 1, 1)
    ELSE Fecha(f.anio + 1, 1, 1)

RECURSIVE MasDias(_, _)
MasDias(f, n) ==
    IF n = 0 THEN f
    ELSE IF n > 0 THEN MasDias(DiaSiguiente(f), n - 1)
    ELSE MasDias(DiaAnterior(f), n + 1)

weekday(f) == (Ordinal(f) + 6) % 7

FechaMenorIgual(f, g) ==
    \/ f.anio < g.anio
    \/ f.anio = g.anio /\ f.mes < g.mes
    \/ f.anio = g.anio /\ f.mes = g.mes /\ f.dia <= g.dia

(***************************************************************************)
(* utils/calculos.py                                                       *)
(***************************************************************************)
es_hora_nocturna_min(minuto) ==
    LET minuto_normalizado == minuto % MINUTOS_DIA
    IN  minuto_normalizado >= NOCTURNO_INICIO \/ minuto_normalizado < NOCTURNO_FIN

calcular_diferencia_horas(inicio, fin) ==
    LET fin_dt == IF fin < inicio THEN fin + SEGUNDOS_DIA ELSE fin
    IN  Redondear(fin_dt - inicio, 36)

calcular_horas_nocturnas(entrada, salida) ==
    LET entrada_min == entrada \div 60
        salida_0 == salida \div 60
        salida_min == IF salida_0 < entrada_min THEN salida_0 + MINUTOS_DIA ELSE salida_0
        minutos == Cardinality({m \in entrada_min..(salida_min - 1) : es_hora_nocturna_min(m)})
    IN  Redondear(minutos * 100, 60)

Intervalo(entrada, salida) ==
    LET horas == calcular_diferencia_horas(entrada, salida)
        horas_nocturnas == calcular_horas_nocturnas(entrada, salida)
    IN  [entrada |-> entrada, salida |-> salida, horas |-> horas,
         horas_nocturnas |-> horas_nocturnas,
         horas_diurnas |-> horas - horas_nocturnas]

SiguienteSalida_cualquiera(registros, i) == (i + 1)..Len(registros)

SiguienteSalida(registros, i) ==
    {j \in (i + 1)..Len(registros) : registros[j].tipo_registro = "SALIDA"}

RECURSIVE Emparejar_sinSaltar(_, _, _)
Emparejar_sinSaltar(registros, i, intervalos) ==
    IF i > Len(registros) THEN intervalos
    ELSE IF registros[i].tipo_registro = "ENTRADA" /\ SiguienteSalida(registros, i) # {}
         THEN LET j == MinSet(SiguienteSalida(registros, i))
              IN  Emparejar_sinSaltar(registros, i + 1,
                                      Append(intervalos,
                                             Intervalo(registros[i].hora_registro,
                                                       registros[j].hora_registro)))
         ELSE Emparejar_sinSaltar(registros, i + 1, intervalos)

RECURSIVE Emparejar(_, _, _)
Emparejar(registros, i, intervalos) ==
    IF i > Len(registros) THEN intervalos
    ELSE IF registros[i].tipo_registro = "ENTRADA" /\ SiguienteSalida(registros, i) # {}
         THEN LET j == MinSet(SiguienteSalida(registros, i))
              IN  Emparejar(registros, j + 1,
                            Append(intervalos,
                                   Intervalo(registros[i].hora_registro,
                                             registros[j].hora_registro)))
         ELSE Emparejar(registros, i + 1, intervalos)

HorasOrdinarias(horas_total) == Min2(horas_total, JORNADA_ORDINARIA)

HorasExtra(horas_total) == Max2(0, horas_total - JORNADA_ORDINARIA)

HorasExtraNocturna_proporcionDiurna(horas_extra, horas_nocturnas_total, horas_total) ==
    IF horas_extra > 0
    THEN IF horas_total > 0
         THEN Redondear(horas_extra * (horas_total - horas_nocturnas_total), horas_total)
         ELSE 0
    ELSE 0

HorasExtraNocturna(horas_extra, horas_nocturnas_total, horas_total) ==
    IF horas_extra > 0
    THEN IF horas_total > 0
         THEN Redondear(horas_extra * horas_nocturnas_total, horas_total)
         ELSE 0
    ELSE 0

HorasExtraDiurna_sinRestar(horas_extra, horas_extra_nocturna) ==
    IF horas_extra > 0 THEN horas_extra ELSE 0

HorasExtraDiurna(horas_extra, horas_extra_nocturna) ==
    IF horas_extra > 0 THEN horas_extra - horas_extra_nocturna ELSE 0

EsDomingo_dow0(fecha) == weekday(fecha) = 0

EsDomingo(fecha) == weekday(fecha) = 6

HorasDominical(es_domingo, horas_total) == IF es_domingo THEN horas_total ELSE 0

TotalHoras(intervalos) ==
    SumSeq([k \in 1..Len(intervalos) |-> intervalos[k].horas])

TotalNocturnas(intervalos) ==
    SumSeq([k \in 1..Len(intervalos) |-> intervalos[k].horas_nocturnas])

\* the returned dict, from the day totals and the split of the extra hours
ResultadoDia(fecha, intervalos, total, nocturnas, extra, extra_nocturna) ==
    [fecha |-> fecha,
     es_domingo |-> EsDomingo(fecha),
     horas_trabajadas |-> total,
     horas_ordinarias |-> HorasOrdinarias(total),
     horas_extra_diurna |-> HorasExtraDiurna(extra, extra_nocturna),
     horas_extra_nocturna |-> extra_nocturna,
     horas_recargo_nocturno |-> nocturnas,
     horas_dominical |-> HorasDominical(EsDomingo(fecha), total),
     intervalos |-> intervalos,
     total_intervalos |-> Len(intervalos)]

\* the split of the day totals into ordinary and extra hours
ClasificarTotales(fecha, intervalos, horas_total, horas_nocturnas_total) ==
    ResultadoDia(fecha, intervalos, horas_total, horas_nocturnas_total,
                 HorasExtra(horas_total),
                 HorasExtraNocturna(HorasExtra(horas_total), horas_nocturnas_total,
                                    horas_total))

ClasificarIntervalos(fecha, intervalos) ==
    ClasificarTotales(fecha, intervalos, TotalHoras(intervalos), TotalNocturnas(intervalos))

calcular_horas_dia(registros, fecha) ==
    ClasificarIntervalos(fecha, Emparejar(registros, 1, <<>>))

(***************************************************************************)
(* calcular_valor_horas.  Rates are integers in ten-thousandths of a       *)
(* currency unit per hour (5833.33 is 58333300), values in hundredths.     *)
(***************************************************************************)
VALOR_HORA_ORDINARIA_DEFECTO == 58333300

\* rate * 1.25, rate * 1.75 and rate * 0.35 of a rate given in whole cents
FactorExtraDiurna(valor) == (valor * 5) \div 4
FactorExtraNocturna(valor) == (valor * 7) \div 4
FactorRecargoNocturno_135(valor) == valor + ((valor * 7) \div 20)
FactorRecargoNocturno(valor) == (valor * 7) \div 20
FactorDominical(valor) == (valor * 7) \div 4

\* round(horas * valor, 2): horas in hundredths, valor in ten-thousandths,
\* result in hundredths; the product is split so that it stays within 32 bits
ValorRedondeado(horas, valor) ==
    LET q == valor \div 10000
        s == valor % 10000
        base == horas * q + ((horas * s) \div 10000)
        r == (horas * s) % 10000
    IN  IF 2 * r > 10000 THEN base + 1
        ELSE IF 2 * r < 10000 THEN base
        ELSE IF base % 2 = 0 THEN base ELSE base + 1

ConfigGet(config, clave, defecto) ==
    IF clave \in DOMAIN config THEN config[clave] ELSE defecto

ValorOrdinaria(config) ==
    ConfigGet(config, "valor_hora_ordinaria", VALOR_HORA_ORDINARIA_DEFECTO)

ValorExtraDiurna(config) ==
    ConfigGet(config, "valor_hora_extra_diurna", FactorExtraDiurna(ValorOrdinaria(config)))

ValorExtraNocturna(config) ==
    ConfigGet(config, "valor_hora_extra_nocturna",
              FactorExtraNocturna(ValorOrdinaria(config)))

ValorDominical(horas, config) ==
    IF horas.es_domingo
    THEN ValorRedondeado(horas.horas_dominical, FactorDominical(ValorOrdinaria(config)))
    ELSE 0

TotalValores(ordinarias, extra_diurna, extra_nocturna, recargo_nocturno, dominical) ==
    ordinarias + extra_diurna + extra_nocturna + recargo_nocturno + dominical

calcular_valor_horas(horas, config) ==
    LET ordinarias == ValorRedondeado(horas.horas_ordinarias, ValorOrdinaria(config))
        extra_diurna == ValorRedondeado(horas.horas_extra_diurna, ValorExtraDiurna(config))
        extra_nocturna ==
            ValorRedondeado(horas.horas_extra_nocturna, ValorExtraNocturna(config))
        recargo_nocturno ==
            ValorRedondeado(horas.horas_recargo_nocturno,
                            FactorRecargoNocturno(ValorOrdinaria(config)))
        dominical == ValorDominical(horas, config)
    IN  [ordinarias |-> ordinarias,
         extra_diurna |-> extra_diurna,
         extra_nocturna |-> extra_nocturna,
         recargo_nocturno |-> recargo_nocturno,
         dominical |-> dominical,
         total |-> TotalValores(ordinarias, extra_diurna, extra_nocturna,
                                recargo_nocturno, dominical)]

(***************************************************************************)
(* Classifier applied to every short list of punches                       *)
(***************************************************************************)
TiposRegistro == {"ENTRADA", "SALIDA"}

HorasDia == {Hora(6, 0, 0), Hora(8, 0, 0), Hora(13, 0, 0),
             Hora(17, 0, 0), Hora(21, 0, 0), Hora(23, 0, 0)}

EventosDia == [tipo_registro : TiposRegistro, hora_registro : HorasDia]

FechasDia == {Fecha(2025, 12, 31), Fecha(2026, 1, 4)}

ListasDeRegistros == UNION {[1..n -> EventosDia] : n \in 0..MaxRegistros}

RpcInactivo ==
    /\ body = Nada
    /\ respuesta = Nada
    /\ atendidas = 0
    /\ servidor = Nada

ProcesoInactivo ==
    /\ db = Nada
    /\ proceso = Nada

TablasVacias ==
    /\ registros_tbl = <<>>
    /\ empleados_tbl = <<>>
    /\ config_tbl = <<>>

InitDia ==
    /\ args \in [registros : ListasDeRegistros, fecha : FechasDia]
    /\ resultado = Nada
    /\ op = "inicio"
    /\ TablasVacias
    /\ RpcInactivo
    /\ ProcesoInactivo

CalcularHorasDia ==
    /\ op = "inicio"
    /\ resultado' = calcular_horas_dia(args.registros, args.fecha)
    /\ op' = "calcular_horas_dia"
    /\ UNCHANGED <<registros_tbl, empleados_tbl, config_tbl, args,
                   body, respuesta, atendidas, servidor, db, proceso>>

NextDia == CalcularHorasDia

SpecDia == InitDia /\ [][NextDia]_vars

HorasDeIntervalos(r) == SumSeq([k \in 1..Len(r.intervalos) |-> r.intervalos[k].horas])

NocturnasDeIntervalos(r) ==
    SumSeq([k \in 1..Len(r.intervalos) |-> r.intervalos[k].horas_nocturnas])

\* C1: for every list of punches of one day, the day totals returned by
\* calcular_horas_dia satisfy horas_ordinarias + horas_extra_diurna +
\* horas_extra_nocturna = horas_trabajadas within 0.01 hours.
C1_SumaCategorias ==
    op = "calcular_horas_dia" =>
        Abs(resultado.horas_ordinarias + resultado.horas_extra_diurna
            + resultado.horas_extra_nocturna - resultado.horas_trabajadas) <= 1

C1_Testigo ==
    /\ op = "calcular_horas_dia"
    /\ resultado.horas_trabajadas > JORNADA_ORDINARIA
    /\ resultado.horas_extra_diurna > 0
    /\ resultado.horas_extra_nocturna > 0

\* C2: the day's hours are summed over all intervals first and then split:
\* ordinary = min(worked, 8) <= 8, overtime = max(0, worked - 8); with overtime > 0
\* the nocturnal overtime is overtime * nocturnal_total / worked (to the nearest
\* hundredth) and the diurnal overtime is the rest, otherwise both are zero; the
\* night surcharge is the nocturnal total of all intervals of the day.
C2_ReglaDeReparto ==
    op = "calcular_horas_dia" =>
        LET r == resultado
            T == HorasDeIntervalos(r)
            N == NocturnasDeIntervalos(r)
            E == IF T > 800 THEN T - 800 ELSE 0
        IN  /\ r.horas_trabajadas = T
            /\ r.horas_ordinarias = (IF T < 800 THEN T ELSE 800)
            /\ r.horas_ordinarias <= 800
            /\ r.horas_recargo_nocturno = N
            /\ E > 0 => /\ 2 * Abs(r.horas_extra_nocturna * T - E * N) <= T
                        /\ r.horas_extra_diurna = E - r.horas_extra_nocturna
            /\ E = 0 => /\ r.horas_extra_nocturna = 0
                        /\ r.horas_extra_diurna = 0

C2_Testigo ==
    /\ op = "calcular_horas_dia"
    /\ resultado.total_intervalos = 2
    /\ \A k \in 1..2 : resultado.intervalos[k].horas < JORNADA_ORDINARIA
    /\ resultado.horas_trabajadas > JORNADA_ORDINARIA
    /\ resultado.horas_extra_nocturna > 0
    /\ resultado.horas_extra_diurna > 0

\* The positions of the punches that open an interval: an ENTRADA that starts the
\* list or follows a SALIDA, with a SALIDA somewhere after it; and the SALIDA
\* that closes the interval opened at position i
EntradasEmparejadas(registros) ==
    {i \in 1..Len(registros) :
        /\ registros[i].tipo_registro = "ENTRADA"
        /\ i = 1 \/ registros[i - 1].tipo_registro = "SALIDA"
        /\ \E j \in (i + 1)..Len(registros) : registros[j].tipo_registro = "SALIDA"}

SalidaDe(registros, i) ==
    CHOOSE j \in (i + 1)..Len(registros) :
        /\ registros[j].tipo_registro = "SALIDA"
        /\ \A p \in (i + 1)..(j - 1) : registros[p].tipo_registro = "ENTRADA"

Enesima(S, k) == CHOOSE i \in S : Cardinality({x \in S : x < i}) = k - 1

Cuantos(registros, tipo) ==
    Cardinality({i \in 1..Len(registros) : registros[i].tipo_registro = tipo})

\* C23: calcular_horas_dia pairs the punches in one forward walk: an ENTRADA at
\* position i is paired with the first SALIDA at a position j > i, one interval
\* (time of i, time of j) is emitted and the walk resumes at j + 1; so every
\* punch belongs to at most one interval, the ENTRADAs between i and j are
\* skipped, and there are at most min(#ENTRADA, #SALIDA) intervals.
C23_Emparejamiento ==
    op = "calcular_horas_dia" =>
        LET regs == args.registros
            I == EntradasEmparejadas(regs)
            ints == resultado.intervalos
        IN  /\ Len(ints) = Cardinality(I)
            /\ resultado.total_intervalos = Cardinality(I)
            /\ \A k \in 1..Len(ints) :
                   LET i == Enesima(I, k)
                   IN  /\ ints[k].entrada = regs[i].hora_registro
                       /\ ints[k].salida = regs[SalidaDe(regs, i)].hora_registro
            /\ \A i1, i2 \in I :
                   i1 < i2 => SalidaDe(regs, i1) < i2
            /\ Len(ints) <= Min2(Cuantos(regs, "ENTRADA"), Cuantos(regs, "SALIDA"))

C23_Testigo ==
    /\ op = "calcular_horas_dia"
    /\ Len(args.registros) = 4
    /\ args.registros[1].tipo_registro = "ENTRADA"
    /\ args.registros[2].tipo_registro = "ENTRADA"
    /\ args.registros[3].tipo_registro = "SALIDA"
    /\ args.registros[4].tipo_registro = "SALIDA"
    /\ args.registros[2].hora_registro # args.registros[1].hora_registro
    /\ resultado.total_intervalos = 1

\* A punch that can belong to no interval: an ENTRADA with no SALIDA after it,
\* or a SALIDA that no ENTRADA is waiting for (it starts the list or follows
\* another SALIDA)
EsHuerfano(registros, p) ==
    \/ /\ registros[p].tipo_registro = "ENTRADA"
       /\ \A j \in (p + 1)..Len(registros) : registros[j].tipo_registro = "ENTRADA"
    \/ /\ registros[p].tipo_registro = "SALIDA"
       /\ p = 1 \/ registros[p - 1].tipo_registro = "SALIDA"

SinPosicion(registros, p) ==
    [k \in 1..(Len(registros) - 1) |-> IF k < p THEN registros[k] ELSE registros[k + 1]]

\* C24: in calcular_horas_dia an ENTRADA with no later SALIDA and a SALIDA with no
\* ENTRADA waiting for it give no interval and no hours and raise nothing: a day
\* made only of such punches has horas_trabajadas = 0 and no intervals, and the
\* intervals of a day are those of the same day without any one of its orphans.
C24_Huerfanos ==
    op = "calcular_horas_dia" =>
        LET regs == args.registros
        IN  /\ {"horas_trabajadas", "intervalos"} \subseteq DOMAIN resultado
            /\ (\A p \in 1..Len(regs) : EsHuerfano(regs, p)) =>
                   /\ resultado.horas_trabajadas = 0
                   /\ resultado.intervalos = <<>>
            /\ \A p \in 1..Len(regs) :
                   EsHuerfano(regs, p) =>
                       resultado.intervalos = Emparejar(SinPosicion(regs, p), 1, <<>>)

C24_Testigo ==
    /\ op = "calcular_horas_dia"
    /\ Len(args.registros) = 4
    /\ EsHuerfano(args.registros, 1)
    /\ args.registros[1].tipo_registro = "SALIDA"
    /\ EsHuerfano(args.registros, 4)
    /\ args.registros[4].tipo_registro = "ENTRADA"
    /\ resultado.total_intervalos = 1
    /\ resultado.horas_trabajadas > 0

\* C27: an interval whose entrada and salida are the same time is a failure
\* INVALID_INTERVAL: the hours of the interval are not computed for it, and the
\* day result reports it as an anomaly instead of counting it among the worked
\* intervals, without raising.
C27_IntervaloDegenerado ==
    (op = "calcular_horas_dia" /\ "intervalos" \in DOMAIN resultado) =>
        /\ \A k \in 1..Len(resultado.intervalos) :
               resultado.intervalos[k].entrada # resultado.intervalos[k].salida
        /\ (\E i \in EntradasEmparejadas(args.registros) :
               args.registros[i].hora_registro =
                   args.registros[SalidaDe(args.registros, i)].hora_registro) =>
               "anomalias" \in DOMAIN resultado

(***************************************************************************)
(* utils/fechas.py                                                         *)
(***************************************************************************)
ValueError == [error |-> "ValueError"]

\* date(anio, mes, dia) of datetime: raises ValueError outside the calendar
date(a, m, d) == IF FechaValida(Fecha(a, m, d)) THEN Fecha(a, m, d) ELSE ValueError

get_week_range(fecha) ==
    LET inicio == MasDias(fecha, 0 - weekday(fecha))
        fin == MasDias(inicio, 6)
    IN  [inicio |-> inicio, fin |-> fin]

UltimoDiaDelMes(anio, mes) ==
    IF mes = 12 THEN DiaAnterior(date(anio + 1, 1, 1))
    ELSE DiaAnterior(date(anio, mes + 1, 1))

get_month_range(anio, mes) ==
    IF date(anio, mes, 1) = ValueError THEN ValueError
    ELSE [inicio |-> date(anio, mes, 1), fin |-> UltimoDiaDelMes(anio, mes)]

get_quincena_range_sinDiciembre(anio, mes, quincena) ==
    IF date(anio, mes, 1) = ValueError THEN ValueError
    ELSE IF quincena = 1
         THEN [inicio |-> date(anio, mes, 1), fin |-> date(anio, mes, 15)]
         ELSE IF date(anio, mes + 1, 1) = ValueError THEN ValueError
              ELSE [inicio |-> date(anio, mes, 16),
                    fin |-> DiaAnterior(date(anio, mes + 1, 1))]

get_quincena_range(anio, mes, quincena) ==
    IF date(anio, mes, 1) = ValueError THEN ValueError
    ELSE IF quincena = 1
         THEN [inicio |-> date(anio, mes, 1), fin |-> date(anio, mes, 15)]
         ELSE [inicio |-> date(anio, mes, 16), fin |-> UltimoDiaDelMes(anio, mes)]

(***************************************************************************)
(* Date ranges computed for every month of the model's years               *)
(***************************************************************************)
AniosFechas == {2000, 2023, 2024, 2025, 2100}

MesesFechas == 0..13

InitFechas ==
    /\ args \in [anio : AniosFechas, mes : MesesFechas]
    /\ resultado = [quincena1 |-> Nada, quincena2 |-> Nada, mes |-> Nada]
    /\ op = "inicio"
    /\ TablasVacias
    /\ RpcInactivo
    /\ ProcesoInactivo

GetQuincenaRange(quincena) ==
    /\ resultado' =
         IF quincena = 1
         THEN [resultado EXCEPT
                 !.quincena1 = get_quincena_range(args.anio, args.mes, quincena)]
         ELSE [resultado EXCEPT
                 !.quincena2 = get_quincena_range(args.anio, args.mes, quincena)]
    /\ resultado' # resultado
    /\ op' = "get_quincena_range"
    /\ UNCHANGED <<registros_tbl, empleados_tbl, config_tbl, args,
                   body, respuesta, atendidas, servidor, db, proceso>>

GetMonthRange ==
    /\ resultado.mes = Nada
    /\ resultado' = [resultado EXCEPT !.mes = get_month_range(args.anio, args.mes)]
    /\ op' = "get_month_range"
    /\ UNCHANGED <<registros_tbl, empleados_tbl, config_tbl, args,
                   body, respuesta, atendidas, servidor, db, proceso>>

NextFechas ==
    \/ \E quincena \in 1..2 : GetQuincenaRange(quincena)
    \/ GetMonthRange

SpecFechas == InitFechas /\ [][NextFechas]_vars

RangosCalculados ==
    /\ op \in {"get_quincena_range", "get_month_range"}
    /\ resultado.quincena1 # Nada
    /\ resultado.quincena2 # Nada
    /\ resultado.mes # Nada

UltimoDiaCalendario(a, m) ==
    IF m \in {1, 3, 5, 7, 8, 10, 12} THEN 31
    ELSE IF m \in {4, 6, 9, 11} THEN 30
    ELSE IF a % 400 = 0 \/ (a % 4 = 0 /\ a % 100 # 0) THEN 29 ELSE 28

\* C8: for every year and month, quincena 1 is days 1-15 and quincena 2 is day 16
\* to the last day of the month, so the two fortnights are disjoint and together
\* cover exactly the month returned by get_month_range (December and leap
\* Februaries included).
C8_QuincenasCubrenElMes ==
    (RangosCalculados /\ args.mes \in 1..12) =>
        LET q1 == resultado.quincena1
            q2 == resultado.quincena2
            m == resultado.mes
        IN  /\ q1 # ValueError /\ q2 # ValueError /\ m # ValueError
            /\ q1.inicio = Fecha(args.anio, args.mes, 1)
            /\ q1.fin = Fecha(args.anio, args.mes, 15)
            /\ q2.inicio = Fecha(args.anio, args.mes, 16)
            /\ q2.fin = Fecha(args.anio, args.mes,
                              UltimoDiaCalendario(args.anio, args.mes))
            /\ m.inicio = q1.inicio
            /\ m.fin = q2.fin

C8_Testigo ==
    /\ RangosCalculados
    /\ args.anio = 2024
    /\ args.mes = 2
    /\ resultado.quincena2.fin = Fecha(2024, 2, 29)

(***************************************************************************)
(* Valuation applied to hour breakdowns and configurations                 *)
(***************************************************************************)
HorasValor == {0, 125, 800}

ClavesConfig == {"valor_hora_ordinaria", "valor_hora_extra_diurna",
                 "valor_hora_extra_nocturna"}

ValoresConfig == {70000000, 91234500}

Configuraciones == UNION {[claves -> ValoresConfig] : claves \in SUBSET ClavesConfig}

DesglosesDeHoras ==
    [horas_ordinarias : HorasValor, horas_extra_diurna : HorasValor,
     horas_extra_nocturna : HorasValor, horas_recargo_nocturno : HorasValor,
     horas_dominical : HorasValor, es_domingo : BOOLEAN]

InitValor ==
    /\ args \in [horas : DesglosesDeHoras, config : Configuraciones]
    /\ resultado = Nada
    /\ op = "inicio"
    /\ TablasVacias
    /\ RpcInactivo
    /\ ProcesoInactivo

CalcularValorHoras ==
    /\ op = "inicio"
    /\ resultado' = calcular_valor_horas(args.horas, args.config)
    /\ op' = "calcular_valor_horas"
    /\ UNCHANGED <<registros_tbl, empleados_tbl, config_tbl, args,
                   body, respuesta, atendidas, servidor, db, proceso>>

NextValor == CalcularValorHoras

SpecValor == InitValor /\ [][NextValor]_vars

\* v is horas * valor rounded to the nearest hundredth
EsProductoRedondeado(v, horas, valor) ==
    LET q == valor \div 10000
        s == valor % 10000
        d == v - horas * q
    IN  /\ d >= 0
        /\ d <= horas + 1
        /\ 2 * Abs(d * 10000 - horas * s) <= 10000

TarifaOrdinariaEsperada ==
    IF "valor_hora_ordinaria" \in DOMAIN args.config
    THEN args.config["valor_hora_ordinaria"] ELSE 58333300

TarifaExtraDiurnaEsperada ==
    IF "valor_hora_extra_diurna" \in DOMAIN args.config
    THEN args.config["valor_hora_extra_diurna"]
    ELSE (TarifaOrdinariaEsperada \div 100) * 125

TarifaExtraNocturnaEsperada ==
    IF "valor_hora_extra_nocturna" \in DOMAIN args.config
    THEN args.config["valor_hora_extra_nocturna"]
    ELSE (TarifaOrdinariaEsperada \div 100) * 175

\* C6: calcular_valor_horas values each category as hours x rate: ordinary at
\* valor_hora_ordinaria (default 5833.33), overtime-diurnal at
\* valor_hora_extra_diurna (default ordinary x 1.25), overtime-nocturnal at
\* valor_hora_extra_nocturna (default ordinary x 1.75), night surcharge always at
\* ordinary x 0.35; total is the sum of the five line-items.
C6_ValorPorCategoria ==
    op = "calcular_valor_horas" =>
        LET h == args.horas
            v == resultado
        IN  /\ EsProductoRedondeado(v.ordinarias, h.horas_ordinarias,
                                    TarifaOrdinariaEsperada)
            /\ EsProductoRedondeado(v.extra_diurna, h.horas_extra_diurna,
                                    TarifaExtraDiurnaEsperada)
            /\ EsProductoRedondeado(v.extra_nocturna, h.horas_extra_nocturna,
                                    TarifaExtraNocturnaEsperada)
            /\ EsProductoRedondeado(v.recargo_nocturno, h.horas_recargo_nocturno,
                                    (TarifaOrdinariaEsperada \div 100) * 35)
            /\ v.total = v.ordinarias + v.extra_diurna + v.extra_nocturna
                         + v.recargo_nocturno + v.dominical

C6_Testigo ==
    /\ op = "calcular_valor_horas"
    /\ DOMAIN args.config = {"valor_hora_extra_nocturna"}
    /\ args.horas.es_domingo
    /\ resultado.ordinarias > 0
    /\ resultado.extra_diurna > 0
    /\ resultado.extra_nocturna > 0
    /\ resultado.recargo_nocturno > 0
    /\ resultado.dominical > 0

(***************************************************************************)
(* The attendance database and the report tools that read it               *)
(*                                                                         *)
(* registros_tbl maps <<empleado, fecha>> to the set of punches stored for *)
(* that employee and date; punches of one employee and date have distinct  *)
(* times, so ORDER BY hora_registro yields one order.  The restaurante     *)
(* filter of the tools is left at None.                                    *)
(***************************************************************************)
Null == "NULL"

Empleados == {"e1", "e2"}

\* ORDER BY e.apellido, e.nombre
EmpleadosOrdenados == <<"e1", "e2">>

\* The dates that may hold punches, ascending: Sunday 2025-12-28, Monday
\* 2025-12-29, Wednesday 2025-12-31 and Sunday 2026-01-04
FechasTbl == <<Fecha(2025, 12, 28), Fecha(2025, 12, 29),
               Fecha(2025, 12, 31), Fecha(2026, 1, 4)>>

FechasTblSet == {FechasTbl[k] : k \in 1..Len(FechasTbl)}

Evento(tipo, hora) == [tipo_registro |-> tipo, hora_registro |-> hora]

\* The shifts a day may hold: 21 hours, the overnight 21:00 to 06:00, and 6 hours;
\* two 21-hour days and a 6-hour day make a week of exactly 48 hours
Turnos == {
    {Evento("ENTRADA", Hora(0, 0, 0)), Evento("SALIDA", Hora(21, 0, 0))},
    {Evento("ENTRADA", Hora(21, 0, 0)), Evento("SALIDA", Hora(6, 0, 0))},
    {Evento("ENTRADA", Hora(10, 0, 0)), Evento("SALIDA", Hora(16, 0, 0))}}

Celdas == Empleados \X FechasTblSet

CeldasOcupadas(tbl) == {c \in Celdas : tbl[c] # {}}

\* ORDER BY hora_registro over the punches of one employee and date
RECURSIVE OrdenarPorHora(_)
OrdenarPorHora(filas) ==
    IF filas = {} THEN <<>>
    ELSE LET primera == CHOOSE r \in filas :
                            \A o \in filas : r.hora_registro <= o.hora_registro
         IN  <<primera>> \o OrdenarPorHora(filas \ {primera})

\* the dates of seq fechas, in order, that satisfy Test
RECURSIVE FiltrarFechas(_, _, _, _)
FiltrarFechas(fechas, emp, inicio, fin) ==
    IF fechas = <<>> THEN <<>>
    ELSE LET f == Head(fechas)
             resto == FiltrarFechas(Tail(fechas), emp, inicio, fin)
         IN  IF /\ registros_tbl[<<emp, f>>] # {}
                /\ FechaMenorIgual(inicio, f)
                /\ FechaMenorIgual(f, fin)
             THEN <<f>> \o resto
             ELSE resto

\* registros_por_fecha of one employee: the dates with punches BETWEEN inicio AND fin
registros_por_fecha(emp, inicio, fin) == FiltrarFechas(FechasTbl, emp, inicio, fin)

RECURSIVE FiltrarEmpleados(_, _, _, _)
FiltrarEmpleados(emps, empleado_id, inicio, fin) ==
    IF emps = <<>> THEN <<>>
    ELSE LET e == Head(emps)
             resto == FiltrarEmpleados(Tail(emps), empleado_id, inicio, fin)
         IN  IF /\ empleados_tbl[e].activo
                /\ empleado_id = Null \/ empleado_id = e
                /\ registros_por_fecha(e, inicio, fin) # <<>>
             THEN <<e>> \o resto
             ELSE resto

\* tools/reportes.py: calcular_horas_trabajadas_dia
calcular_horas_trabajadas_dia(empleado_id, fecha) ==
    IF empleado_id \notin DOMAIN empleados_tbl
    THEN [error |-> "Empleado no encontrado"]
    ELSE LET registros == OrdenarPorHora(registros_tbl[<<empleado_id, fecha>>])
         IN  IF registros = <<>>
             THEN [empleado_id |-> empleado_id,
                   fecha |-> fecha,
                   mensaje |-> "No hay registros para esta fecha",
                   horas_trabajadas |-> 0]
             ELSE calcular_horas_dia(registros, fecha)
                  @@ [empleado_id |-> empleado_id,
                      liquida_dominical |-> empleados_tbl[empleado_id].liquida_dominical,
                      registros |-> registros]

\* tools/reportes.py: reporte_horas_semanal
AlertaExceso_mayorIgual(horas_trabajadas) == horas_trabajadas >= LIMITE_SEMANAL

AlertaExceso(horas_trabajadas) == horas_trabajadas > LIMITE_SEMANAL

\* registros_por_fecha of one employee, each date run through calcular_horas_dia
DiasDeFechas(emp, fechas) ==
    [k \in 1..Len(fechas) |->
        calcular_horas_dia(OrdenarPorHora(registros_tbl[<<emp, fechas[k]>>]), fechas[k])]

DiasTrabajados(emp, inicio, fin) == DiasDeFechas(emp, registros_por_fecha(emp, inicio, fin))

TotalesSemana(dias) ==
    [horas_trabajadas |-> SumSeq([k \in 1..Len(dias) |-> dias[k].horas_trabajadas]),
     horas_ordinarias |-> SumSeq([k \in 1..Len(dias) |-> dias[k].horas_ordinarias]),
     horas_extra_diurna |-> SumSeq([k \in 1..Len(dias) |-> dias[k].horas_extra_diurna]),
     horas_extra_nocturna |-> SumSeq([k \in 1..Len(dias) |-> dias[k].horas_extra_nocturna]),
     horas_recargo_nocturno |->
         SumSeq([k \in 1..Len(dias) |-> dias[k].horas_recargo_nocturno]),
     horas_dominical |-> SumSeq([k \in 1..Len(dias) |-> dias[k].horas_dominical])]

ReporteSemanalTotales(emp, inicio_semana, fin_semana, dias, totales) ==
    [empleado_id |-> emp,
     semana_inicio |-> inicio_semana,
     semana_fin |-> fin_semana,
     dias |-> dias,
     totales |-> totales,
     alerta_exceso |-> AlertaExceso(totales.horas_trabajadas),
     horas_exceso |-> Max2(0, totales.horas_trabajadas - LIMITE_SEMANAL)]

ReporteSemanalDias(emp, inicio_semana, fin_semana, dias) ==
    ReporteSemanalTotales(emp, inicio_semana, fin_semana, dias, TotalesSemana(dias))

ReporteSemanalEmpleado(emp, inicio_semana, fin_semana) ==
    ReporteSemanalDias(emp, inicio_semana, fin_semana,
                       DiasTrabajados(emp, inicio_semana, fin_semana))

ReportesSemanales(emps, semana) ==
    [k \in 1..Len(emps) |-> ReporteSemanalEmpleado(emps[k], semana.inicio, semana.fin)]

RespuestaSemanal(empleado_id, semana, reportes) ==
    [semana |-> semana,
     filtros |-> [empleado_id |-> empleado_id, restaurante |-> Null],
     total_empleados |-> Len(reportes),
     reportes |-> reportes]

ReporteDeSemana(empleado_id, semana) ==
    RespuestaSemanal(empleado_id, semana,
                     ReportesSemanales(FiltrarEmpleados(EmpleadosOrdenados, empleado_id,
                                                        semana.inicio, semana.fin),
                                       semana))

reporte_horas_semanal(empleado_id, fecha_ref) ==
    ReporteDeSemana(empleado_id, get_week_range(fecha_ref))

\* tools/nomina.py: resumen_nomina_quincenal
HorasDominicalNomina(liquida_dominical, dias) ==
    IF liquida_dominical
    THEN SumSeq([k \in 1..Len(dias) |-> dias[k].horas_dominical])
    ELSE 0

DetalleDias(dias) ==
    LET conIntervalos == SelectSeq(dias, LAMBDA d : d.intervalos # <<>>)
    IN  [k \in 1..Len(conIntervalos) |->
            [fecha |-> conIntervalos[k].fecha,
             entrada |-> conIntervalos[k].intervalos[1].entrada,
             salida |-> conIntervalos[k].intervalos[Len(conIntervalos[k].intervalos)].salida,
             horas |-> conIntervalos[k].horas_trabajadas]]

HorasNomina(liquida_dominical, dias) ==
    [ordinarias |-> SumSeq([k \in 1..Len(dias) |-> dias[k].horas_ordinarias]),
     extra_diurna |-> SumSeq([k \in 1..Len(dias) |-> dias[k].horas_extra_diurna]),
     extra_nocturna |-> SumSeq([k \in 1..Len(dias) |-> dias[k].horas_extra_nocturna]),
     recargo_nocturno |-> SumSeq([k \in 1..Len(dias) |-> dias[k].horas_recargo_nocturno]),
     dominical |-> HorasDominicalNomina(liquida_dominical, dias)]

HorasParaCalculo(horas) ==
    [horas_ordinarias |-> horas.ordinarias,
     horas_extra_diurna |-> horas.extra_diurna,
     horas_extra_nocturna |-> horas.extra_nocturna,
     horas_recargo_nocturno |-> horas.recargo_nocturno,
     horas_dominical |-> horas.dominical,
     es_domingo |-> FALSE]

ReporteNominaHoras(emp, dias, horas, config) ==
    [empleado_id |-> emp,
     dias_trabajados |-> Len(dias),
     horas |-> horas,
     valores |-> calcular_valor_horas(HorasParaCalculo(horas), config),
     detalle_dias |-> DetalleDias(dias)]

ReporteNominaDias(emp, dias, config) ==
    ReporteNominaHoras(emp, dias,
                       HorasNomina(empleados_tbl[emp].liquida_dominical, dias), config)

ReporteNominaEmpleado(emp, inicio, fin, config) ==
    ReporteNominaDias(emp, DiasTrabajados(emp, inicio, fin), config)

ReportesNomina(emps, rango) ==
    [k \in 1..Len(emps) |->
        ReporteNominaEmpleado(emps[k], rango.inicio, rango.fin, config_tbl)]

RespuestaNomina(quincena, rango, reportes) ==
    [quincena |-> quincena,
     rango |-> rango,
     filtros |-> [restaurante |-> Null],
     total_empleados |-> Len(reportes),
     reportes |-> reportes]

NominaDeRango(quincena, rango) ==
    IF rango = ValueError THEN ValueError
    ELSE RespuestaNomina(quincena, rango,
                         ReportesNomina(FiltrarEmpleados(EmpleadosOrdenados, Null,
                                                         rango.inicio, rango.fin),
                                        rango))

resumen_nomina_quincenal(anio, mes, quincena) ==
    NominaDeRango(quincena, get_quincena_range(anio, mes, quincena))

(***************************************************************************)
(* Punches are recorded shift by shift; the tools are called in between    *)
(***************************************************************************)
EmpleadosArgs == {"e1", "e9"}

FechasRef == {Fecha(2025, 12, 28), Fecha(2025, 12, 29), Fecha(2025, 12, 31),
              Fecha(2026, 1, 4), Fecha(2026, 1, 5)}

\* The tools only read the tables: each call is taken from the state the last
\* recorded punch left, and its result does not depend on earlier calls
TablasEnReposo == op \in {"inicio", "registrar"}

\* anio and mes of the payroll calls; month 13 is outside the calendar
PeriodosNomina == {<<2025, 12>>, <<2026, 1>>, <<2025, 13>>}

\* quincena of the payroll calls; 3 is outside {1, 2}
QuincenasNomina == 1..3

Init ==
    /\ registros_tbl = [c \in Celdas |-> {}]
    /\ empleados_tbl =
         [e \in Empleados |-> [liquida_dominical |-> (e = "e1"), activo |-> TRUE]]
    /\ config_tbl \in {<<>>, [c \in {"valor_hora_ordinaria"} |-> 70000000]}
    /\ args = Nada
    /\ resultado = Nada
    /\ op = "inicio"
    /\ RpcInactivo
    /\ ProcesoInactivo

RegistrarTurno(emp, fecha, turno) ==
    /\ registros_tbl[<<emp, fecha>>] = {}
    /\ Cardinality(CeldasOcupadas(registros_tbl)) < MaxTurnos
    /\ registros_tbl' = [registros_tbl EXCEPT ![<<emp, fecha>>] = turno]
    /\ args' = Nada
    /\ resultado' = Nada
    /\ op' = "registrar"
    /\ UNCHANGED <<empleados_tbl, config_tbl, body, respuesta, atendidas, servidor, db, proceso>>

CalcularHorasTrabajadasDia(empleado_id, fecha) ==
    /\ TablasEnReposo
    /\ args' = [empleado_id |-> empleado_id, fecha |-> fecha]
    /\ resultado' = calcular_horas_trabajadas_dia(empleado_id, fecha)
    /\ op' = "calcular_horas_trabajadas_dia"
    /\ UNCHANGED <<registros_tbl, empleados_tbl, config_tbl,
                   body, respuesta, atendidas, servidor, db, proceso>>

ReporteHorasSemanal(empleado_id, fecha_ref) ==
    /\ TablasEnReposo
    /\ args' = [empleado_id |-> empleado_id, fecha_ref |-> fecha_ref]
    /\ resultado' = reporte_horas_semanal(empleado_id, fecha_ref)
    /\ op' = "reporte_horas_semanal"
    /\ UNCHANGED <<registros_tbl, empleados_tbl, config_tbl,
                   body, respuesta, atendidas, servidor, db, proceso>>

ResumenNominaQuincenal(anio, mes, quincena) ==
    /\ TablasEnReposo
    /\ args' = [anio |-> anio, mes |-> mes, quincena |-> quincena]
    /\ resultado' = resumen_nomina_quincenal(anio, mes, quincena)
    /\ op' = "resumen_nomina_quincenal"
    /\ UNCHANGED <<registros_tbl, empleados_tbl, config_tbl,
                   body, respuesta, atendidas, servidor, db, proceso>>

Next ==
    \/ \E emp \in Empleados, fecha \in FechasTblSet, turno \in Turnos :
          RegistrarTurno(emp, fecha, turno)
    \/ \E empleado_id \in EmpleadosArgs, fecha \in FechasTblSet :
          CalcularHorasTrabajadasDia(empleado_id, fecha)
    \/ \E empleado_id \in {Null, "e1"}, fecha_ref \in FechasRef :
          ReporteHorasSemanal(empleado_id, fecha_ref)
    \/ \E periodo \in PeriodosNomina, quincena \in QuincenasNomina :
          ResumenNominaQuincenal(periodo[1], periodo[2], quincena)

Spec == Init /\ [][Next]_vars

Domingos == {Fecha(2025, 12, 28), Fecha(2026, 1, 4)}

TurnoNocturno == {Evento("ENTRADA", Hora(21, 0, 0)), Evento("SALIDA", Hora(6, 0, 0))}

\* C3: for an employee whose only records on the requested date are an ENTRY at
\* 21:00 and an EXIT at 06:00, calcular_horas_trabajadas_dia returns 9 hours
\* worked, 8 ordinary, 1 overtime-nocturnal, 0 overtime-diurnal, 9 of night
\* surcharge and exactly one interval.
C3_TurnoNocturnoNueveHoras ==
    (/\ op = "calcular_horas_trabajadas_dia"
     /\ args.empleado_id \in Empleados
     /\ registros_tbl[<<args.empleado_id, args.fecha>>] = TurnoNocturno) =>
        /\ resultado.horas_trabajadas = 900
        /\ resultado.horas_ordinarias = 800
        /\ resultado.horas_extra_nocturna = 100
        /\ resultado.horas_extra_diurna = 0
        /\ resultado.horas_recargo_nocturno = 900
        /\ resultado.total_intervalos = 1

DiaClasificado(d) ==
    d.horas_dominical = (IF d.fecha \in Domingos THEN d.horas_trabajadas ELSE 0)

TrabajoEnDomingo(emp, rango) ==
    \E f \in Domingos :
        /\ FechaMenorIgual(rango.inicio, f)
        /\ FechaMenorIgual(f, rango.fin)
        /\ calcular_horas_dia(OrdenarPorHora(registros_tbl[<<emp, f>>]), f).horas_trabajadas > 0

\* C4: calcular_horas_dia reports horas_dominical = horas_trabajadas when the date
\* is a Sunday (weekday 6) and 0 otherwise; in resumen_nomina_quincenal an
\* employee's dominical hours are non-zero only if the employee has
\* liquida_dominical = true and worked on a Sunday of the fortnight.
C4_HorasDominicales ==
    /\ (op = "calcular_horas_trabajadas_dia" /\ "intervalos" \in DOMAIN resultado) =>
           DiaClasificado(resultado)
    /\ op = "reporte_horas_semanal" =>
           \A k \in 1..Len(resultado.reportes) :
               \A d \in 1..Len(resultado.reportes[k].dias) :
                   DiaClasificado(resultado.reportes[k].dias[d])
    /\ (op = "resumen_nomina_quincenal" /\ "reportes" \in DOMAIN resultado) =>
           \A k \in 1..Len(resultado.reportes) :
               LET rep == resultado.reportes[k]
               IN  rep.horas.dominical # 0 =>
                       /\ empleados_tbl[rep.empleado_id].liquida_dominical
                       /\ TrabajoEnDomingo(rep.empleado_id, resultado.rango)

C4_Testigo ==
    /\ op = "resumen_nomina_quincenal"
    /\ "reportes" \in DOMAIN resultado
    /\ Len(resultado.reportes) = 2
    /\ resultado.reportes[1].horas.dominical = 600
    /\ resultado.reportes[2].horas.dominical = 0
    /\ TrabajoEnDomingo("e2", resultado.rango)

\* C5: in resumen_nomina_quincenal, for an employee with liquida_dominical = true
\* the line-item valores.dominical equals the employee's Sunday hours of the
\* fortnight times the ordinary hourly rate times 1.75.
C5_ValorDominicalNomina ==
    (op = "resumen_nomina_quincenal" /\ "reportes" \in DOMAIN resultado) =>
        \A k \in 1..Len(resultado.reportes) :
            LET rep == resultado.reportes[k]
            IN  empleados_tbl[rep.empleado_id].liquida_dominical =>
                    EsProductoRedondeado(rep.valores.dominical, rep.horas.dominical,
                        ((IF "valor_hora_ordinaria" \in DOMAIN config_tbl
                          THEN config_tbl["valor_hora_ordinaria"]
                          ELSE 58333300) \div 100) * 175)

SemanasEsperadas ==
    {[inicio |-> Fecha(2025, 12, 22), fin |-> Fecha(2025, 12, 28)],
     [inicio |-> Fecha(2025, 12, 29), fin |-> Fecha(2026, 1, 4)],
     [inicio |-> Fecha(2026, 1, 5), fin |-> Fecha(2026, 1, 11)]}

FechasConRegistros(emp, semana) ==
    {f \in FechasTblSet : /\ registros_tbl[<<emp, f>>] # {}
                          /\ FechaMenorIgual(semana.inicio, f)
                          /\ FechaMenorIgual(f, semana.fin)}

SumaDias(dias, campo) == SumSeq([d \in 1..Len(dias) |-> dias[d][campo]])

\* C7: reporte_horas_semanal covers exactly the Monday-to-Sunday week containing
\* the reference date; each employee's totals are the sums of the per-day category
\* totals of that week; alerta_exceso is true exactly when the week's total hours
\* worked is greater than 48.
C7_ReporteSemanal ==
    op = "reporte_horas_semanal" =>
        LET semana == resultado.semana
            reps == resultado.reportes
        IN  /\ semana \in SemanasEsperadas
            /\ FechaMenorIgual(semana.inicio, args.fecha_ref)
            /\ FechaMenorIgual(args.fecha_ref, semana.fin)
            /\ {reps[k].empleado_id : k \in 1..Len(reps)} =
                   {e \in Empleados : /\ args.empleado_id \in {Null, e}
                                      /\ FechasConRegistros(e, semana) # {}}
            /\ \A k \in 1..Len(reps) :
                   LET rep == reps[k]
                   IN  /\ {rep.dias[d].fecha : d \in 1..Len(rep.dias)} =
                              FechasConRegistros(rep.empleado_id, semana)
                       /\ Len(rep.dias) =
                              Cardinality(FechasConRegistros(rep.empleado_id, semana))
                       /\ \A campo \in {"horas_trabajadas", "horas_ordinarias",
                                        "horas_extra_diurna", "horas_extra_nocturna",
                                        "horas_recargo_nocturno", "horas_dominical"} :
                              rep.totales[campo] = SumaDias(rep.dias, campo)
                       /\ rep.alerta_exceso = (rep.totales.horas_trabajadas > 4800)

C7_Testigo ==
    /\ op = "reporte_horas_semanal"
    /\ Len(resultado.reportes) = 1
    /\ Len(resultado.reportes[1].dias) = 3
    /\ resultado.reportes[1].totales.horas_trabajadas > 4800
    /\ resultado.reportes[1].alerta_exceso
    /\ resultado.semana.inicio.anio # resultado.semana.fin.anio

\* C16: a resumen_nomina_quincenal call whose mes is outside 1-12 or whose
\* quincena is not 1 or 2 is rejected: the tool raises or returns an error and
\* produces no report.
C16_FueraDeRango ==
    (/\ op = "resumen_nomina_quincenal"
     /\ args.mes \notin 1..12 \/ args.quincena \notin {1, 2}) =>
        /\ "error" \in DOMAIN resultado
        /\ "reportes" \notin DOMAIN resultado

(***************************************************************************)
(* JSON-RPC dispatch over POST /mcp: server.py (attendance server) and     *)
(* http_server_other_app.py with server_other_app.py (Odoo variant).       *)
(*                                                                         *)
(* A request is the HTTP method and the parsed body.  json tells whether   *)
(* the body parses to a JSON object; id is Null when the key is absent or  *)
(* null; params.tipo and params.arguments.tipo tell whether the value is a *)
(* JSON object; argument values are written as text.  A response records   *)
(* the HTTP status, the id key (IdAusente when the key is missing), result *)
(* or error, the error code, the payload text and, in detalle, the name    *)
(* formatted into the message or the listed tools.                         *)
(***************************************************************************)
IdAusente == "AUSENTE"

NoCadena == "NO_CADENA"

TOOL_REGISTRY_sinNomina ==
    {"consultar_empleados", "buscar_empleado", "consultar_registros_fecha",
     "consultar_registros_rango", "obtener_ultimo_registro", "empleados_sin_salida",
     "calcular_horas_trabajadas_dia", "reporte_horas_semanal", "reporte_horas_mensual",
     "estadisticas_asistencia", "obtener_configuracion"}

TOOL_REGISTRY ==
    {"consultar_empleados", "buscar_empleado", "consultar_registros_fecha",
     "consultar_registros_rango", "obtener_ultimo_registro", "empleados_sin_salida",
     "calcular_horas_trabajadas_dia", "reporte_horas_semanal", "reporte_horas_mensual",
     "estadisticas_asistencia", "obtener_configuracion", "resumen_nomina_quincenal"}

\* The keyword arguments each lambda of TOOL_REGISTRY passes to its tool, with
\* the default args.get gives a key that is missing (None is Null)
ArgumentosPorDefecto(name) ==
    CASE name = "consultar_empleados" ->
             [activos_solo |-> "True", restaurante |-> Null, departamento |-> Null]
      [] name = "buscar_empleado" -> [termino |-> ""]
      [] name = "consultar_registros_fecha" ->
             [fecha |-> "", empleado_id |-> Null, restaurante |-> Null, tipo |-> Null]
      [] name = "consultar_registros_rango" ->
             [fecha_inicio |-> "", fecha_fin |-> "", empleado_id |-> Null,
              restaurante |-> Null]
      [] name = "obtener_ultimo_registro" -> [empleado_id |-> ""]
      [] name = "empleados_sin_salida" -> [fecha |-> Null]
      [] name = "calcular_horas_trabajadas_dia" -> [empleado_id |-> "", fecha |-> ""]
      [] name = "reporte_horas_semanal" ->
             [empleado_id |-> Null, fecha_semana |-> Null, restaurante |-> Null]
      [] name = "reporte_horas_mensual" ->
             [anio |-> "2025", mes |-> "1", empleado_id |-> Null, restaurante |-> Null]
      [] name = "estadisticas_asistencia" ->
             [fecha_inicio |-> "", fecha_fin |-> "", restaurante |-> Null]
      [] name = "obtener_configuracion" -> [clave |-> Null]
      [] name = "resumen_nomina_quincenal" ->
             [anio |-> "2025", mes |-> "1", quincena |-> "1", restaurante |-> Null]

\* args.get(key, default) for every key the lambda of the tool reads
ArgumentosDeLlamada(name, valores) ==
    [k \in DOMAIN ArgumentosPorDefecto(name) |->
        IF k \in DOMAIN valores THEN valores[k] ELSE ArgumentosPorDefecto(name)[k]]

\* name and inputSchema.required of every entry of TOOL_DEFINITIONS, in order
TOOL_DEFINITIONS ==
    <<[name |-> "consultar_empleados", required |-> {}],
      [name |-> "buscar_empleado", required |-> {"termino"}],
      [name |-> "consultar_registros_fecha", required |-> {"fecha"}],
      [name |-> "consultar_registros_rango", required |-> {"fecha_inicio", "fecha_fin"}],
      [name |-> "obtener_ultimo_registro", required |-> {"empleado_id"}],
      [name |-> "empleados_sin_salida", required |-> {}],
      [name |-> "calcular_horas_trabajadas_dia", required |-> {"empleado_id", "fecha"}],
      [name |-> "reporte_horas_semanal", required |-> {}],
      [name |-> "reporte_horas_mensual", required |-> {"anio", "mes"}],
      [name |-> "estadisticas_asistencia", required |-> {"fecha_inicio", "fecha_fin"}],
      [name |-> "obtener_configuracion", required |-> {}],
      [name |-> "resumen_nomina_quincenal", required |-> {"anio", "mes", "quincena"}]>>

Resultado(id, payload) ==
    [status |-> 200, id |-> id, tipo |-> "result", code |-> 0, payload |-> payload,
     detalle |-> <<>>]

ErrorRpc(status, id, code, message) ==
    [status |-> status, id |-> id, tipo |-> "error", code |-> code, payload |-> message,
     detalle |-> <<>>]

ConDetalle(r, detalle) == [r EXCEPT !.detalle = detalle]

\* method_name.startswith("notifications/")
EsNotificacion(method) == method \in {"notifications/initialized", "notifications/cancelled"}

\* f"Method not found: {method_name}"
MetodoNoEncontrado_sinId(id, method) ==
    ConDetalle(ErrorRpc(200, IdAusente, -32601, "Method not found: "), <<method>>)

MetodoNoEncontrado(id, method) ==
    ConDetalle(ErrorRpc(200, id, -32601, "Method not found: "), <<method>>)

\* f"Tool not found: {tool_name}"
HerramientaNoEncontrada(id, name) ==
    ConDetalle(ErrorRpc(200, id, -32601, "Tool not found: "), <<name>>)

\* the lambda of TOOL_REGISTRY and the tool it awaits: what the handler does
\* with the outcome of the tool (handler = "ok" or "excepcion")
HandlerInvocado(servidor_, b) ==
    /\ b.http_method = "POST"
    /\ b.json = "objeto"
    /\ b.method = "tools/call"
    /\ b.params.tipo = "objeto"
    /\ servidor_ = "asistencia" => b.params.name \in TOOL_REGISTRY

ExcepcionDeHerramienta(id, handler) ==
    IF handler = "ok"
    THEN Resultado(id, "json del resultado")
    ELSE ErrorRpc(200, id, -32000, "str(e)")

\* server.py: handle_streamable_http
handle_streamable_http(b, handler) ==
    IF b.http_method = "GET" THEN Resultado(IdAusente, "serverInfo")
    ELSE IF b.json # "objeto" \/ b.method = NoCadena
         THEN ErrorRpc(500, IdAusente, -32000, "str(e)")
    ELSE IF EsNotificacion(b.method)
         THEN IF b.id # Null THEN Resultado(b.id, "{}") ELSE Resultado(IdAusente, "{}")
    ELSE IF b.method = "initialize" THEN Resultado(b.id, "serverInfo")
    ELSE IF b.method = "tools/list" THEN ConDetalle(Resultado(b.id, "tools"), TOOL_DEFINITIONS)
    ELSE IF b.method = "tools/call"
         THEN IF b.params.tipo # "objeto"
              THEN ErrorRpc(500, IdAusente, -32000, "str(e)")
              ELSE IF b.params.name \notin TOOL_REGISTRY
                   THEN HerramientaNoEncontrada(b.id, b.params.name)
                   ELSE ExcepcionDeHerramienta(b.id, handler)
    ELSE MetodoNoEncontrado(b.id, b.method)

\* server_other_app.py: call_tool, the text of the TextContent it returns
OdooTools == {"get_server_datetime", "get_sales_today"}

call_tool(name, arguments, handler) ==
    IF name \in OdooTools /\ handler = "ok" THEN "texto del resultado"
    ELSE IF name \in OdooTools THEN "Error: str(e)"
    ELSE "Error: Unknown tool: name"

SinRespuesta == ErrorRpc(200, IdAusente, -32000, "No response")

\* http_server_other_app.py: handle_streamable_http
handle_streamable_http_odoo(b, handler) ==
    IF b.http_method = "GET" THEN Resultado(IdAusente, "serverInfo")
    ELSE IF b.json = "ilegible" THEN ErrorRpc(500, IdAusente, -32000, "str(e)")
    ELSE IF b.json # "objeto" \/ b.method = NoCadena THEN SinRespuesta
    ELSE IF EsNotificacion(b.method)
         THEN IF b.id # Null THEN Resultado(b.id, "{}") ELSE SinRespuesta
    ELSE IF b.method = "initialize" THEN Resultado(b.id, "serverInfo")
    ELSE IF b.method = "tools/list" THEN Resultado(b.id, "tools")
    ELSE IF b.method = "tools/call"
         THEN IF b.params.tipo # "objeto"
              THEN SinRespuesta
              ELSE Resultado(b.id, call_tool(b.params.name, b.params.arguments, handler))
    ELSE MetodoNoEncontrado(b.id, b.method)

(***************************************************************************)
(* Requests posted to /mcp one after another                               *)
(***************************************************************************)
Ids == {Null, "k1", "k2"}

\* the value of "arguments": a JSON object (valores maps its keys) or another value
SinArgumentos == [tipo |-> "objeto", valores |-> <<>>]

ArgumentosToolsCall ==
    {SinArgumentos,
     [tipo |-> "objeto", valores |-> [k \in {"mes"} |-> "2"]],
     [tipo |-> "objeto", valores |-> [k \in {"anio", "mes"} |-> IF k = "anio" THEN "2026" ELSE "2"]],
     [tipo |-> "otro", valores |-> <<>>]}

ParamsVacio == [tipo |-> "objeto", name |-> "", arguments |-> SinArgumentos]

ParamsToolsCall ==
    [tipo : {"objeto"},
     name : {"consultar_empleados", "reporte_horas_mensual", "get_server_datetime",
             "no_existe"},
     arguments : ArgumentosToolsCall]
    \cup {[tipo |-> "otro", name |-> "", arguments |-> SinArgumentos]}

Solicitudes ==
    {[http_method |-> "GET", json |-> "ninguno", id |-> Null, method |-> "",
      params |-> ParamsVacio]}
    \cup [http_method : {"POST"}, json : {"ilegible", "no_objeto"}, id : {Null},
          method : {""}, params : {ParamsVacio}]
    \cup [http_method : {"POST"}, json : {"objeto"}, id : Ids,
          method : {"initialize", "tools/list", "notifications/initialized",
                    "resources/list", "", NoCadena},
          params : {ParamsVacio}]
    \cup [http_method : {"POST"}, json : {"objeto"}, id : Ids,
          method : {"tools/call"}, params : ParamsToolsCall]

\* what the awaited tool can do: a lambda given arguments that are not an
\* object raises; otherwise the tool returns or raises (database unavailable)
ResultadosDeHandler(servidor_, b) ==
    IF ~HandlerInvocado(servidor_, b) THEN {"no_invocado"}
    ELSE IF b.params.arguments.tipo # "objeto" THEN {"excepcion"}
    ELSE {"ok", "excepcion"}

\* the keyword arguments the tool is awaited with
Llamada(servidor_, b) ==
    IF /\ HandlerInvocado(servidor_, b)
       /\ servidor_ = "asistencia"
       /\ b.params.arguments.tipo = "objeto"
    THEN ArgumentosDeLlamada(b.params.name, b.params.arguments.valores)
    ELSE <<>>

InitRpc ==
    /\ servidor \in {"asistencia", "odoo"}
    /\ body = Nada
    /\ respuesta = Nada
    /\ atendidas = 0
    /\ args = Nada
    /\ resultado = Nada
    /\ op = "inicio"
    /\ TablasVacias
    /\ ProcesoInactivo

Post(b) ==
    /\ atendidas < MaxSolicitudes
    /\ body = Nada \/ respuesta # Nada
    /\ body' = b
    /\ respuesta' = Nada
    /\ resultado' = Nada
    /\ op' = "post"
    /\ UNCHANGED <<registros_tbl, empleados_tbl, config_tbl, args, atendidas, servidor, db, proceso>>

Responder(handler) ==
    /\ body # Nada
    /\ respuesta = Nada
    /\ handler \in ResultadosDeHandler(servidor, body)
    /\ respuesta' = IF servidor = "asistencia"
                    THEN handle_streamable_http(body, handler)
                    ELSE handle_streamable_http_odoo(body, handler)
    /\ resultado' = [handler |-> handler, llamada |-> Llamada(servidor, body)]
    /\ atendidas' = atendidas + 1
    /\ op' = "responder"
    /\ UNCHANGED <<registros_tbl, empleados_tbl, config_tbl, args, body, servidor, db, proceso>>

NextRpc ==
    \/ \E b \in Solicitudes : Post(b)
    \/ \E handler \in {"ok", "excepcion", "no_invocado"} : Responder(handler)

SpecRpc == InitRpc /\ [][NextRpc]_vars

SolicitudConId ==
    /\ op = "responder"
    /\ body.http_method = "POST"
    /\ body.json = "objeto"
    /\ body.id # Null

\* C9: for every JSON-RPC request POSTed to /mcp that carries an id k, whatever
\* its method and params, the response carries the same id k; a notifications/*
\* request with id k gets id k with an empty {} result.
C9_MismoId ==
    SolicitudConId =>
        /\ respuesta.id = body.id
        /\ body.method = "notifications/initialized" =>
               respuesta.tipo = "result" /\ respuesta.payload = "{}"

\* C10: any exception raised while executing a tool handler during tools/call
\* is returned as a JSON-RPC error response with code -32000 and the exception
\* string as message (never as a successful result, never as a dropped
\* connection), and the service keeps answering later requests.
C10_ExcepcionComoError ==
    (op = "responder" /\ resultado.handler = "excepcion") =>
        /\ respuesta.tipo = "error"
        /\ respuesta.code = -32000
        /\ respuesta.payload = "str(e)"
        /\ respuesta.status = 200
        /\ atendidas < MaxSolicitudes => ENABLED (\E b \in Solicitudes : Post(b))

RegistroDe(servidor_) == IF servidor_ = "asistencia" THEN TOOL_REGISTRY ELSE OdooTools

SolicitudToolsCall ==
    /\ op = "responder"
    /\ body.http_method = "POST"
    /\ body.json = "objeto"
    /\ body.method = "tools/call"
    /\ body.params.tipo = "objeto"

\* C11: in both dispatch shells a tools/call whose tool name is not registered
\* is answered with a JSON-RPC error of code -32601 and no handler is invoked.
C11_HerramientaDesconocida ==
    (SolicitudToolsCall /\ body.params.name \notin RegistroDe(servidor)) =>
        /\ respuesta.tipo = "error"
        /\ respuesta.code = -32601
        /\ servidor = "asistencia" => resultado.handler = "no_invocado"

MetodosConocidos == {"initialize", "tools/list", "tools/call"}

\* C12: a request whose method (a string) is none of initialize, tools/list,
\* tools/call or notifications/* is answered with the error of code -32601 and
\* message "Method not found: <method>", carrying the id of the request.
C12_MetodoDesconocido ==
    (/\ op = "responder"
     /\ body.http_method = "POST"
     /\ body.json = "objeto"
     /\ body.method \notin MetodosConocidos \cup {NoCadena}
     /\ ~EsNotificacion(body.method)) =>
        respuesta = [status |-> 200, id |-> body.id, tipo |-> "error", code |-> -32601,
                     payload |-> "Method not found: ", detalle |-> <<body.method>>]

C12_Testigo ==
    /\ op = "responder"
    /\ servidor = "odoo"
    /\ body.json = "objeto"
    /\ body.method = "resources/list"
    /\ body.id = "k1"
    /\ respuesta.code = -32601
    /\ respuesta.id = "k1"

\* C13: a POST to /mcp whose body is not parseable JSON is answered with a
\* JSON-RPC error of code -32700.
C13_JsonIlegible ==
    (op = "responder" /\ body.http_method = "POST" /\ body.json = "ilegible") =>
        /\ respuesta.tipo = "error"
        /\ respuesta.code = -32700

\* C14: in both dispatch shells every request whose method starts with
\* notifications/ is answered with a success response whose result is {}; when
\* the notification has no id the response has a null (or no) id.
C14_NotificacionReconocida ==
    (/\ op = "responder"
     /\ body.http_method = "POST"
     /\ body.json = "objeto"
     /\ EsNotificacion(body.method)) =>
        /\ respuesta.tipo = "result"
        /\ respuesta.payload = "{}"
        /\ body.id = Null => respuesta.id \in {Null, IdAusente}

Requeridas(name) ==
    UNION {TOOL_DEFINITIONS[k].required :
               k \in {i \in 1..Len(TOOL_DEFINITIONS) : TOOL_DEFINITIONS[i].name = name}}

\* C15: a tools/call of the attendance server that lacks a key the tool's schema
\* lists as required is rejected with INVALID_ARGUMENT (-32602) and the handler
\* of the tool never runs.
C15_ClavesRequeridas ==
    (/\ SolicitudToolsCall
     /\ servidor = "asistencia"
     /\ body.params.name \in TOOL_REGISTRY
     /\ body.params.arguments.tipo = "objeto"
     /\ ~(Requeridas(body.params.name) \subseteq DOMAIN body.params.arguments.valores)) =>
        /\ respuesta.tipo = "error"
        /\ respuesta.code = -32602
        /\ resultado.handler = "no_invocado"

CatalogoPublico ==
    {[name |-> "consultar_empleados", required |-> {}],
     [name |-> "buscar_empleado", required |-> {"termino"}],
     [name |-> "consultar_registros_fecha", required |-> {"fecha"}],
     [name |-> "consultar_registros_rango", required |-> {"fecha_inicio", "fecha_fin"}],
     [name |-> "calcular_horas_trabajadas_dia", required |-> {"empleado_id", "fecha"}],
     [name |-> "reporte_horas_semanal", required |-> {}],
     [name |-> "reporte_horas_mensual", required |-> {"anio", "mes"}],
     [name |-> "estadisticas_asistencia", required |-> {"fecha_inicio", "fecha_fin"}],
     [name |-> "empleados_sin_salida", required |-> {}],
     [name |-> "obtener_ultimo_registro", required |-> {"empleado_id"}],
     [name |-> "obtener_configuracion", required |-> {}],
     [name |-> "resumen_nomina_quincenal", required |-> {"anio", "mes", "quincena"}]}

\* C17: the names listed by tools/list are exactly the names tools/call accepts,
\* each once, they are the 12 names of the public catalog, and every listed
\* definition requires exactly the catalog's required arguments.
C17_ConjuntoDeHerramientas ==
    /\ (/\ op = "responder"
        /\ servidor = "asistencia"
        /\ body.json = "objeto"
        /\ body.method = "tools/list") =>
           LET defs == respuesta.detalle
               nombres == {defs[k].name : k \in 1..Len(defs)}
           IN  /\ nombres = TOOL_REGISTRY
               /\ Cardinality(nombres) = Len(defs)
               /\ Len(defs) = 12
               /\ {defs[k] : k \in 1..Len(defs)} = CatalogoPublico
    /\ (SolicitudToolsCall /\ servidor = "asistencia") =>
           ((respuesta.code = -32601) <=>
                (body.params.name \notin
                     {TOOL_DEFINITIONS[k].name : k \in 1..Len(TOOL_DEFINITIONS)}))

C17_Testigo ==
    /\ op = "responder"
    /\ servidor = "asistencia"
    /\ body.json = "objeto"
    /\ body.method = "tools/list"
    /\ body.id = "k2"
    /\ respuesta.tipo = "result"
    /\ Len(respuesta.detalle) = 12

(***************************************************************************)
(* Rows of table registros with their work-site, as the queries of         *)
(* tools/registros.py and the restaurante clause of every tool read them.  *)
(*                                                                         *)
(* In this specification registros_tbl is the set of rows of the table.  A *)
(* text is a sequence of characters; a restaurante filter is None (nulo)   *)
(* or a text without the LIKE wildcards % and _.                           *)
(***************************************************************************)
MaxFilas == 2

\* the case folding of ILIKE
Minuscula(c) ==
    CASE c = "N" -> "n"
      [] c = "O" -> "o"
      [] c = "S" -> "s"
      [] OTHER -> c

\* punto_trabajo ILIKE ('%' || restaurante || '%')
ILike(punto_trabajo, restaurante) ==
    \E i \in 1..(Len(punto_trabajo) - Len(restaurante) + 1) :
        \A j \in 1..Len(restaurante) :
            Minuscula(punto_trabajo[i + j - 1]) = Minuscula(restaurante[j])

HerramientasILike == {"consultar_registros_fecha", "consultar_registros_rango"}

HerramientasIgual ==
    {"reporte_horas_semanal", "reporte_horas_mensual", "estadisticas_asistencia",
     "resumen_nomina_quincenal", "consultar_empleados"}

\* the restaurante clause of the WHERE of each tool's query
ClausulaRestaurante(tool, punto_trabajo, restaurante) ==
    \/ restaurante.nulo
    \/ IF tool \in HerramientasILike
       THEN ILike(punto_trabajo, restaurante.texto)
       ELSE punto_trabajo = restaurante.texto

\* the rows a tool reads when only its restaurante filter restricts them
FilasLeidas(tool, restaurante) ==
    {r \in registros_tbl : ClausulaRestaurante(tool, r.punto_trabajo, restaurante)}

\* tools/registros.py: empleados_sin_salida, the rows of its query
empleados_sin_salida(fecha) ==
    LET entradas == {r \in registros_tbl : /\ r.fecha_registro = fecha
                                           /\ r.tipo_registro = "ENTRADA"}
        salidas == {r.empleado_id : r \in {x \in registros_tbl :
                                               /\ x.fecha_registro = fecha
                                               /\ x.tipo_registro = "SALIDA"}}
        grupos == {<<r.empleado_id, r.punto_trabajo>> : r \in entradas}
        empleados ==
            {[empleado_id |-> g[1],
              hora_entrada |-> MinSet({r.hora_registro : r \in
                                         {x \in entradas : /\ x.empleado_id = g[1]
                                                           /\ x.punto_trabajo = g[2]}}),
              punto_trabajo |-> g[2]] : g \in {x \in grupos : x[1] \notin salidas}}
    IN  [fecha |-> fecha,
         total_sin_salida |-> Cardinality(empleados),
         empleados |-> empleados]

PuntosDeTrabajo == {<<"N", "o", "r">>, <<"S", "u", "r">>}

FiltrosRestaurante ==
    {[nulo |-> TRUE, texto |-> <<>>]}
    \cup [nulo : {FALSE},
          texto : {<<"N", "o", "r">>, <<"n", "o">>, <<"o", "r">>, <<"r">>, <<"s", "u">>}]

FechasFilas == {Fecha(2025, 12, 31), Fecha(2026, 1, 4)}

FilasPosibles ==
    [empleado_id : Empleados, fecha_registro : FechasFilas, tipo_registro : TiposRegistro,
     hora_registro : {Hora(8, 0, 0), Hora(13, 0, 0)}, punto_trabajo : PuntosDeTrabajo]

\* the tables of at most n rows
RECURSIVE TablasHasta(_)
TablasHasta(n) ==
    IF n = 0 THEN {{}}
    ELSE TablasHasta(n - 1) \cup {t \cup {r} : t \in TablasHasta(n - 1), r \in FilasPosibles}

InitRegistros ==
    /\ registros_tbl \in TablasHasta(MaxFilas)
    /\ empleados_tbl = <<>>
    /\ config_tbl = <<>>
    /\ args = Nada
    /\ resultado = Nada
    /\ op = "inicio"
    /\ RpcInactivo
    /\ ProcesoInactivo

ConsultarConRestaurante(tool, restaurante) ==
    /\ op = "inicio"
    /\ args' = [tool |-> tool, restaurante |-> restaurante]
    /\ resultado' = [filas |-> FilasLeidas(tool, restaurante)]
    /\ op' = "consultar_con_restaurante"
    /\ UNCHANGED <<registros_tbl, empleados_tbl, config_tbl,
                   body, respuesta, atendidas, servidor, db, proceso>>

EmpleadosSinSalida(fecha) ==
    /\ op = "inicio"
    /\ args' = [fecha |-> fecha]
    /\ resultado' = empleados_sin_salida(fecha)
    /\ op' = "empleados_sin_salida"
    /\ UNCHANGED <<registros_tbl, empleados_tbl, config_tbl,
                   body, respuesta, atendidas, servidor, db, proceso>>

NextRegistros ==
    \/ \E tool \in HerramientasILike \cup HerramientasIgual,
          restaurante \in FiltrosRestaurante : ConsultarConRestaurante(tool, restaurante)
    \/ \E fecha \in FechasFilas : EmpleadosSinSalida(fecha)

SpecRegistros == InitRegistros /\ [][NextRegistros]_vars

\* C18: in every tool that accepts a restaurante filter a row is read iff its
\* work-site contains the filter text as a case-insensitive substring, and a
\* null filter reads every row.
C18_FiltroRestaurante ==
    op = "consultar_con_restaurante" =>
        resultado.filas =
            {r \in registros_tbl :
                \/ args.restaurante.nulo
                \/ ILike(r.punto_trabajo, args.restaurante.texto)}

EntradasDe(e, fecha) ==
    {r \in registros_tbl : /\ r.empleado_id = e
                           /\ r.fecha_registro = fecha
                           /\ r.tipo_registro = "ENTRADA"}

SalidasDe(e, fecha) ==
    {r \in registros_tbl : /\ r.empleado_id = e
                           /\ r.fecha_registro = fecha
                           /\ r.tipo_registro = "SALIDA"}

\* C19: empleados_sin_salida lists an employee iff the employee has an ENTRADA
\* and no SALIDA on the date, lists each such employee once with the earliest
\* ENTRADA of the date as hora_entrada, and total_sin_salida counts them.
C19_SinSalida ==
    op = "empleados_sin_salida" =>
        LET sinSalida == {e \in Empleados : /\ EntradasDe(e, args.fecha) # {}
                                            /\ SalidasDe(e, args.fecha) = {}}
        IN  /\ {f.empleado_id : f \in resultado.empleados} = sinSalida
            /\ resultado.total_sin_salida = Cardinality(sinSalida)
            /\ \A f \in resultado.empleados :
                   f.hora_entrada =
                       MinSet({r.hora_registro : r \in EntradasDe(f.empleado_id, args.fecha)})

(***************************************************************************)
(* The server process of server.py: main() picks the run mode from PORT.   *)
(* In HTTP mode uvicorn runs the Starlette app: it completes the startup   *)
(* half of lifespan before it accepts requests and, once told to stop,     *)
(* accepts no more requests, waits for the handlers in flight and then     *)
(* runs the shutdown half.  In stdio mode mcp.run serves the tools that    *)
(* are registered with @mcp.tool() until its input ends.                   *)
(***************************************************************************)
MaxLlamadas == 3

\* database.py: Database.__init__; database_url names where the URL comes from
Database(database_url) ==
    [database_url |-> database_url, engine |-> "None", session_factory |-> "None"]

\* database.py: Database.connect; create_async_engine opens no connection yet
connect(d) == [d EXCEPT !.engine = "engine", !.session_factory = "sessionmaker"]

\* database.py: Database.disconnect
disconnect(d) == IF d.engine # "None" THEN [d EXCEPT !.engine = "disposed"] ELSE d

\* database.py: Database.execute; calling a session_factory that is None raises
execute(d) == IF d.session_factory = "None" THEN "TypeError" ELSE "filas"

InitProceso ==
    /\ db \in {Database(url) : url \in {"DATABASE_URL_ASYNC", "DATABASE_URL_FALLBACK",
                                        "localhost"}}
    /\ proceso \in [PORT : BOOLEAN, modo : {"ninguno"}, fase : {"inicio"},
                    en_curso : {0}, llamadas : {0}]
    /\ args = Nada
    /\ resultado = Nada
    /\ op = "inicio"
    /\ TablasVacias
    /\ RpcInactivo

\* server.py: main
Main ==
    /\ proceso.fase = "inicio"
    /\ proceso' = IF proceso.PORT
                  THEN [proceso EXCEPT !.modo = "http", !.fase = "arrancando"]
                  ELSE [proceso EXCEPT !.modo = "stdio", !.fase = "sirviendo"]
    /\ op' = "main"
    /\ UNCHANGED <<registros_tbl, empleados_tbl, config_tbl, args, resultado,
                   body, respuesta, atendidas, servidor, db>>

\* server.py: lifespan, up to its yield
LifespanStartup ==
    /\ proceso.modo = "http"
    /\ proceso.fase = "arrancando"
    /\ db' = connect(db)
    /\ proceso' = [proceso EXCEPT !.fase = "sirviendo"]
    /\ op' = "lifespan_startup"
    /\ UNCHANGED <<registros_tbl, empleados_tbl, config_tbl, args, resultado,
                   body, respuesta, atendidas, servidor>>

\* a tools/call (HTTP) or a tool request (stdio) starts the handler of a tool
LlamarHerramienta ==
    /\ proceso.fase = "sirviendo"
    /\ proceso.llamadas < MaxLlamadas
    /\ proceso' = [proceso EXCEPT !.en_curso = @ + 1, !.llamadas = @ + 1]
    /\ op' = "llamar_herramienta"
    /\ UNCHANGED <<registros_tbl, empleados_tbl, config_tbl, args, resultado,
                   body, respuesta, atendidas, servidor, db>>

\* the handler in flight awaits db.execute and returns
Execute ==
    /\ proceso.fase \in {"sirviendo", "deteniendo"}
    /\ proceso.en_curso > 0
    /\ resultado' = [filas |-> execute(db), session_factory |-> db.session_factory,
                     engine |-> db.engine]
    /\ proceso' = [proceso EXCEPT !.en_curso = @ - 1]
    /\ op' = "execute"
    /\ UNCHANGED <<registros_tbl, empleados_tbl, config_tbl, args,
                   body, respuesta, atendidas, servidor, db>>

\* uvicorn.run is told to stop (HTTP), or the input of mcp.run ends (stdio)
Detener ==
    /\ proceso.fase = "sirviendo"
    /\ proceso' = IF proceso.modo = "http"
                  THEN [proceso EXCEPT !.fase = "deteniendo"]
                  ELSE [proceso EXCEPT !.fase = "terminado", !.en_curso = 0]
    /\ op' = "detener"
    /\ UNCHANGED <<registros_tbl, empleados_tbl, config_tbl, args, resultado,
                   body, respuesta, atendidas, servidor, db>>

\* server.py: lifespan, after its yield
LifespanShutdown ==
    /\ proceso.modo = "http"
    /\ proceso.fase = "deteniendo"
    /\ proceso.en_curso = 0
    /\ db' = disconnect(db)
    /\ proceso' = [proceso EXCEPT !.fase = "terminado"]
    /\ op' = "lifespan_shutdown"
    /\ UNCHANGED <<registros_tbl, empleados_tbl, config_tbl, args, resultado,
                   body, respuesta, atendidas, servidor>>

NextProceso ==
    \/ Main
    \/ LifespanStartup
    \/ LlamarHerramienta
    \/ Execute
    \/ Detener
    \/ LifespanShutdown

SpecProceso == InitProceso /\ [][NextProceso]_vars

\* C20: in both run modes Database.connect has completed before any tool handler
\* executes a query, and in HTTP mode the pool is closed only after the server
\* has stopped serving requests.
C20_PoolConectado ==
    /\ op = "execute" =>
           /\ resultado.session_factory = "sessionmaker"
           /\ resultado.engine = "engine"
    /\ (proceso.modo = "http" /\ db.engine = "disposed") =>
           /\ proceso.fase = "terminado"
           /\ proceso.en_curso = 0

(***************************************************************************)
(* POST /mcp requests in flight at the same time (server.py).  uvicorn     *)
(* runs one coroutine of handle_streamable_http per request on one event   *)
(* loop; a coroutine runs until its next await.  The awaits of a request   *)
(* are request.json(), and inside a tool session.execute of                *)
(* Database.execute, so a request takes up to three steps: the body is     *)
(* received, the request is dispatched up to the query of its tool, the    *)
(* rows are fetched and the response is built.  body, respuesta and        *)
(* atendidas map each request slot to its body, its response and its       *)
(* position; proceso holds the module globals and the open sessions.       *)
(***************************************************************************)
MaxEnVuelo == 2

EnVuelo == 1..MaxEnVuelo

\* self.session_factory(): every call of Database.execute opens a session of its own
SesionDe_compartida(d, k) == 0

SesionDe(d, k) == k

\* the rows the SELECT of the tool returns for the contents of the tables
Consulta(name, config, empleados) ==
    IF name = "obtener_configuracion"
    THEN [tabla |-> "configuracion", filas |-> DOMAIN config]
    ELSE [tabla |-> "empleados", filas |-> DOMAIN empleados]

SesionCerrada == [abierta |-> FALSE, filas |-> [tabla |-> "", filas |-> {}]]

SolicitudesEnVuelo ==
    [http_method : {"POST"}, json : {"objeto"}, id : {"k1", "k2"},
     method : {"tools/list", "resources/list"}, params : {ParamsVacio}]
    \cup [http_method : {"POST"}, json : {"objeto"}, id : {"k1", "k2"},
          method : {"tools/call"},
          params : [tipo : {"objeto"},
                    name : {"consultar_empleados", "obtener_configuracion", "no_existe"},
                    arguments : {SinArgumentos}]]

InitConcurrente ==
    /\ db = connect(Database("DATABASE_URL_ASYNC"))
    /\ proceso = [registro |-> TOOL_REGISTRY, definiciones |-> TOOL_DEFINITIONS,
                  sesiones |-> [s \in 0..MaxEnVuelo |-> SesionCerrada]]
    /\ body = [k \in EnVuelo |-> Nada]
    /\ respuesta = [k \in EnVuelo |-> Nada]
    /\ atendidas = [k \in EnVuelo |-> "libre"]
    /\ config_tbl \in {<<>>, [c \in {"valor_hora_ordinaria"} |-> 58333300]}
    /\ empleados_tbl \in {<<>>, [e \in {"e1"} |-> [liquida_dominical |-> TRUE, activo |-> TRUE]]}
    /\ registros_tbl = <<>>
    /\ servidor = "asistencia"
    /\ args = Nada
    /\ resultado = Nada
    /\ op = "inicio"

\* body = await request.json()
Recibir(k, b) ==
    /\ atendidas[k] = "libre"
    /\ body' = [body EXCEPT ![k] = b]
    /\ atendidas' = [atendidas EXCEPT ![k] = "recibida"]
    /\ op' = "recibir"
    /\ UNCHANGED <<registros_tbl, empleados_tbl, config_tbl, args, resultado,
                   respuesta, servidor, db, proceso>>

\* from request.json() to the response, or to the await of session.execute
Despachar(k) ==
    /\ atendidas[k] = "recibida"
    /\ IF body[k].method = "tools/call" /\ body[k].params.name \in proceso.registro
       THEN /\ proceso' = [proceso EXCEPT !.sesiones[SesionDe(db, k)] =
                              [abierta |-> TRUE,
                               filas |-> Consulta(body[k].params.name, config_tbl,
                                                  empleados_tbl)]]
            /\ atendidas' = [atendidas EXCEPT ![k] = "en_sesion"]
            /\ UNCHANGED respuesta
       ELSE /\ respuesta' = [respuesta EXCEPT
                                ![k] = handle_streamable_http(body[k], "no_invocado")]
            /\ atendidas' = [atendidas EXCEPT ![k] = "respondida"]
            /\ UNCHANGED proceso
    /\ op' = "despachar"
    /\ UNCHANGED <<registros_tbl, empleados_tbl, config_tbl, args, resultado,
                   body, servidor, db>>

\* rows = result.fetchall(), the session is closed, the response is built
Completar(k) ==
    /\ atendidas[k] = "en_sesion"
    /\ respuesta' = [respuesta EXCEPT
                        ![k] = IF proceso.sesiones[SesionDe(db, k)].abierta
                               THEN ConDetalle(handle_streamable_http(body[k], "ok"),
                                               proceso.sesiones[SesionDe(db, k)].filas)
                               ELSE handle_streamable_http(body[k], "excepcion")]
    /\ proceso' = [proceso EXCEPT !.sesiones[SesionDe(db, k)] = SesionCerrada]
    /\ atendidas' = [atendidas EXCEPT ![k] = "respondida"]
    /\ op' = "completar"
    /\ UNCHANGED <<registros_tbl, empleados_tbl, config_tbl, args, resultado,
                   body, servidor, db>>

NextConcurrente ==
    \/ \E k \in EnVuelo, b \in SolicitudesEnVuelo : Recibir(k, b)
    \/ \E k \in EnVuelo : Despachar(k)
    \/ \E k \in EnVuelo : Completar(k)

SpecConcurrente == InitConcurrente /\ [][NextConcurrente]_vars

\* the response to b when it is the only request in flight
RespuestaSola(b) ==
    IF b.method = "tools/call" /\ b.params.name \in TOOL_REGISTRY
    THEN ConDetalle(handle_streamable_http(b, "ok"),
                    Consulta(b.params.name, config_tbl, empleados_tbl))
    ELSE handle_streamable_http(b, "no_invocado")

HorasIntervalo ==
    {Hora(0, 0, 0), Hora(4, 0, 0), Hora(6, 0, 0), Hora(20, 59, 59), Hora(21, 0, 0),
     Hora(21, 0, 59), Hora(21, 1, 0), Hora(22, 0, 0), Hora(22, 0, 59), Hora(23, 59, 59)}

InitIntervalo ==
    /\ args \in [entrada : HorasIntervalo, salida : HorasIntervalo,
                 salida_posterior : HorasIntervalo]
    /\ resultado = Nada
    /\ op = "inicio"
    /\ TablasVacias
    /\ RpcInactivo
    /\ ProcesoInactivo

\* the two calls of calcular_horas_dia for one interval, made for the interval
\* entrada-salida and for the interval entrada-salida_posterior
CalcularIntervalo ==
    /\ op = "inicio"
    /\ resultado' = [intervalo |-> Intervalo(args.entrada, args.salida),
                     extendido |-> Intervalo(args.entrada, args.salida_posterior)]
    /\ op' = "calcular_intervalo"
    /\ UNCHANGED <<registros_tbl, empleados_tbl, config_tbl, args,
                   body, respuesta, atendidas, servidor, db, proceso>>

NextIntervalo == CalcularIntervalo

SpecIntervalo == InitIntervalo /\ [][NextIntervalo]_vars

\* length in seconds of the interval from entrada to salida, a salida before the
\* entrada being a salida of the next day
Duracion(entrada, salida) ==
    IF salida < entrada THEN salida + SEGUNDOS_DIA - entrada ELSE salida - entrada

Solape(a, b, c, d) == Max2(0, Min2(b, d) - Max2(a, c))

\* seconds of that interval that lie in [21:00, 24:00) or [00:00, 06:00)
SegundosNocturnos(entrada, salida) ==
    LET fin == entrada + Duracion(entrada, salida)
    IN  Solape(entrada, fin, 0, 21600) + Solape(entrada, fin, 75600, 108000)
        + Solape(entrada, fin, 162000, 172800)

\* the whole minutes that an amount of hundredths of an hour stands for
MinutosDe(horas) == Redondear(horas * 3, 5)

\* C25: for every entrada and salida, calcular_horas_nocturnas counts exactly the
\* minutes of the interval (a salida before the entrada crossing into the next
\* day) whose minute of day lies in [21:00, 24:00) or [00:00, 06:00), exact to
\* one minute; entrada 22:00 and salida 04:00 give 360 minutes (6 hours).
C25_MinutosNocturnos ==
    op = "calcular_intervalo" =>
        /\ Abs(MinutosDe(resultado.intervalo.horas_nocturnas) * 60
               - SegundosNocturnos(args.entrada, args.salida)) <= 60
        /\ (args.entrada = Hora(22, 0, 0) /\ args.salida = Hora(4, 0, 0)) =>
               resultado.intervalo.horas_nocturnas = 600

\* C26: for every entrada and salida with hours, minutes and seconds, the amount
\* of calcular_horas_nocturnas never exceeds the length of the interval given by
\* calcular_diferencia_horas, and it is monotone: with the same entrada, a later
\* salida (a longer interval) never gives a smaller nocturnal amount.
C26_NocturnasAcotadasYMonotonas ==
    op = "calcular_intervalo" =>
        /\ resultado.intervalo.horas_nocturnas <= resultado.intervalo.horas
        /\ Duracion(args.entrada, args.salida)
               <= Duracion(args.entrada, args.salida_posterior) =>
               resultado.intervalo.horas_nocturnas <= resultado.extendido.horas_nocturnas

(***************************************************************************)
(* The punches of one employee and date as the tools read them: the rows   *)
(* of the table, in whatever order they are stored, come back ORDER BY     *)
(* hora_registro, which fixes the order of rows with different times and   *)
(* leaves the order of rows with the same time open; the rows then go to   *)
(* calcular_horas_dia.  Times carry seconds (0 or 59, see HorasIntervalo). *)
(***************************************************************************)
MaxEventos == 3

HorasOrden == {Hora(0, 0, 0), Hora(8, 0, 0), Hora(17, 0, 0),
               Hora(21, 0, 59), Hora(21, 1, 0), Hora(23, 59, 59)}

EventosOrden == [tipo_registro : TiposRegistro, hora_registro : HorasOrden]

Permutaciones(n) == {p \in [1..n -> 1..n] : \A a, b \in 1..n : p[a] = p[b] => a = b}

Permutar(filas, p) == [k \in 1..Len(filas) |-> filas[p[k]]]

OrdenadoPorHora(filas) ==
    \A k \in 1..(Len(filas) - 1) : filas[k].hora_registro <= filas[k + 1].hora_registro

\* ORDER BY hora_registro: the orders in which the rows can come back
OrdenesPorHora(filas) ==
    {q \in {Permutar(filas, p) : p \in Permutaciones(Len(filas))} : OrdenadoPorHora(q)}

InitOrden ==
    /\ args \in [registros : UNION {[1..n -> EventosOrden] : n \in 0..MaxEventos},
                 fecha : FechasDia]
    /\ resultado = Nada
    /\ op = "inicio"
    /\ TablasVacias
    /\ RpcInactivo
    /\ ProcesoInactivo

\* the query of the punches of the day and the call of calcular_horas_dia
ConsultarYCalcular(registros) ==
    /\ op = "inicio"
    /\ registros \in OrdenesPorHora(args.registros)
    /\ resultado' = [registros |-> registros,
                     dia |-> calcular_horas_dia(registros, args.fecha)]
    /\ op' = "consultar_y_calcular"
    /\ UNCHANGED <<registros_tbl, empleados_tbl, config_tbl, args,
                   body, respuesta, atendidas, servidor, db, proceso>>

NextOrden == \E registros \in OrdenesPorHora(args.registros) : ConsultarYCalcular(registros)

SpecOrden == InitOrden /\ [][NextOrden]_vars

\* a stable sort by time: each punch goes after the punches placed so far whose
\* time is not later than its own
RECURSIVE InsertarEstable(_, _)
InsertarEstable(ordenados, x) ==
    IF ordenados = <<>> THEN <<x>>
    ELSE IF Head(ordenados).hora_registro <= x.hora_registro
         THEN <<Head(ordenados)>> \o InsertarEstable(Tail(ordenados), x)
         ELSE <<x>> \o ordenados

RECURSIVE OrdenEstable(_, _)
OrdenEstable(filas, ordenados) ==
    IF filas = <<>> THEN ordenados
    ELSE OrdenEstable(Tail(filas), InsertarEstable(ordenados, Head(filas)))

\* C28: the classifier does not depend on the order of the input within a day:
\* for any punches of one day, also punches with the same time, shuffling them
\* and stably sorting them again by time before calcular_horas_dia gives the
\* same day totals and the same intervals.
C28_IndependienteDelOrden ==
    op = "consultar_y_calcular" =>
        \A p \in Permutaciones(Len(resultado.registros)) :
            calcular_horas_dia(OrdenEstable(Permutar(resultado.registros, p), <<>>),
                               args.fecha) = resultado.dia

\* C29: when the punches given to calcular_horas_dia are sorted ascending by time
\* of day, as ORDER BY hora_registro gives them, every interval has
\* salida >= entrada, so the branch for a salida of the next day is not taken in
\* calcular_diferencia_horas nor in calcular_horas_nocturnas, and the
\* horas_trabajadas of the day are below 24.
C29_SinCruceDeMedianoche ==
    op = "consultar_y_calcular" =>
        /\ \A k \in 1..Len(resultado.dia.intervalos) :
               LET t == resultado.dia.intervalos[k]
               IN  /\ t.salida >= t.entrada
                   /\ t.salida \div 60 >= t.entrada \div 60
                   /\ t.horas = Redondear(t.salida - t.entrada, 36)
        /\ resultado.dia.horas_trabajadas < 2400

\* C30: for any punches of one day, with hours, minutes and seconds, no hour
\* figure of calcular_horas_dia is negative: horas_diurnas >= 0 in every
\* interval, horas_extra_diurna >= 0, horas_extra_nocturna >= 0, and
\* horas_extra_nocturna <= horas_trabajadas - horas_ordinarias.
C30_HorasNoNegativas ==
    op = "consultar_y_calcular" =>
        /\ \A k \in 1..Len(resultado.dia.intervalos) :
               resultado.dia.intervalos[k].horas_diurnas >= 0
        /\ resultado.dia.horas_extra_diurna >= 0
        /\ resultado.dia.horas_extra_nocturna >= 0
        /\ resultado.dia.horas_extra_nocturna
               <= resultado.dia.horas_trabajadas - resultado.dia.horas_ordinarias

====
